---- MODULE Spec2Model ----
(***************************************************************************)
(* A model of src/src/pure.js: the tracked-root store, the root factory,   *)
(* render / rerender / unmount, cleanup and renderHook.  The async         *)
(* functions are processes that suspend at their await points; the         *)
(* rendering runtime is a per-root slot of scheduled work that the         *)
(* synchronization primitive (act) flushes before its promise resolves.    *)
(***************************************************************************)
EXTENDS Integers, Sequences, FiniteSets, TLC

VARIABLES
  hasLegacyAPI,        \* typeof ReactDOM.render === 'function'
  reactStrictMode,     \* getConfig().reactStrictMode
  mountedContainers,   \* the Set of line 48
  mountedRootEntries,  \* the Array of line 52: <<[container, root], ...>>
  roots,               \* the root-handles created so far, by identity (index)
  content,             \* the element committed into each container
  parent,              \* parentNode of each container
  nextAuto,            \* how many containers render() has created
  procs,               \* the calls in flight, each at an await point (mounts: history)
  bundles,             \* the result bundles the caller holds
  current,             \* result.current of each renderHook call
  nextHook,            \* how many renderHook calls created a result ref
  rootsCreated,        \* history: root-handles created per container since the store was last cleared
  calls,               \* history: number of public calls made
  renders,             \* history: number of render and renderHook calls made
  isReactActEnvironment, \* the act-environment flag behind get/setReactActEnvironment
  wrappers,            \* the asyncWrapper calls: where each is and its previousActEnvironment
  flagAtRest,          \* history: the flag when no asyncWrapper call was in flight
  wrapperCalls         \* history: number of asyncWrapper calls made

vars == <<hasLegacyAPI, reactStrictMode, mountedContainers, mountedRootEntries,
          roots, content, parent, nextAuto, procs, bundles, current, nextHook,
          rootsCreated, calls, renders,
          isReactActEnvironment, wrappers, flagAtRest, wrapperCalls>>
wrapperVars == <<isReactActEnvironment, wrappers, flagAtRest, wrapperCalls>>

-----------------------------------------------------------------------------
\* Bounds of the model.
MaxCalls == 4
MaxRenders == 2
MaxRoots == 2
MaxAuto == 1
MaxHooks == 1
MaxWrapperCalls == 4

Procs == {1, 2}
SeqProcs == {1}
Wrappers == {1, 2, 3}

\* DOM nodes.
Body == <<"body", 0>>
El == <<"el", 0>>
NoNode == <<"none", 0>>
CallerContainers == {<<"caller", 1>>, <<"caller", 2>>}
AutoContainers == {"auto"} \X (1..MaxAuto)
Containers == CallerContainers \cup AutoContainers
\* The caller attached container 1 to the document body and left container 2 detached.
CallerParent(k) == IF k = <<"caller", 1>> THEN Body ELSE NoNode

Uis == {"u1", "u2"}
PropsValues == {"undefined", "p1"}

\* Elements: the layers wrapped around a leaf, outermost first.
UiLeaf(u) == [ui |-> u, hook |-> 0, props |-> "undefined"]
NoLeaf == UiLeaf("none")
Element(leaf) == [layers |-> <<>>, leaf |-> leaf]
EmptyEl == Element(NoLeaf)
createElement(type, inner) == [layers |-> <<type>> \o inner.layers, leaf |-> inner.leaf]

strictModeIfNeeded(strict, innerElement) ==
  IF strict THEN createElement("StrictMode", innerElement) ELSE innerElement

wrapUiIfNeeded(innerElement, wrapperComponent) ==
  IF wrapperComponent # "none" THEN createElement(wrapperComponent, innerElement)
  ELSE innerElement

\* Mutant: the wrapper component is put around the strict-mode marker.
DecorateWrapperOutermost(strict, leaf, wrapper) ==
  wrapUiIfNeeded(strictModeIfNeeded(strict, Element(leaf)), wrapper)

\* The element every mount path builds: lines 75, 131, 136.
Decorate(strict, leaf, wrapper) ==
  strictModeIfNeeded(strict, wrapUiIfNeeded(Element(leaf), wrapper))

\* TestComponent of renderHook: the hook callback applied to the props.
TestComponentLeaf(h, props) == [ui |-> "TestComponent", hook |-> h, props |-> props]
renderCallback(props) == <<"returned", props>>
NullRef == <<"null", "null">>

-----------------------------------------------------------------------------
\* The rendering runtime behind a root-handle: work scheduled inside act.
\* A call on a handle yields the error it throws, the roots after it and the
\* number of elements it handed to the runtime (mounts).
Schedule(rs, r, kind, el) == [rs EXCEPT ![r].pend = kind, ![r].pendEl = el]

NewConcurrentRoot(container, hydrate, el) ==
  [kind |-> "concurrent", container |-> container, hydrate |-> hydrate,
   unmounted |-> FALSE,
   pend |-> IF hydrate THEN "render" ELSE "none",
   pendEl |-> IF hydrate THEN el ELSE EmptyEl,
   unmounts |-> 0, cleanupUnmounts |-> 0]

NewLegacyRoot(container) ==
  [kind |-> "legacy", container |-> container, hydrate |-> FALSE,
   unmounted |-> FALSE, pend |-> "none", pendEl |-> EmptyEl,
   unmounts |-> 0, cleanupUnmounts |-> 0]

ConcurrentHydrate(rs, r, el) ==
  [err |-> IF rs[r].hydrate THEN "none" ELSE "NonHydrateable", roots |-> rs, mounts |-> 0]

ConcurrentRender(rs, r, el) ==
  IF rs[r].unmounted THEN [err |-> "UnmountedRoot", roots |-> rs, mounts |-> 0]
  ELSE [err |-> "none", roots |-> Schedule(rs, r, "render", el), mounts |-> 1]

ConcurrentUnmount(rs, r) ==
  IF rs[r].unmounted THEN rs
  ELSE [Schedule(rs, r, "unmount", EmptyEl) EXCEPT ![r].unmounted = TRUE]

LegacyHydrate(rs, r, el) ==
  [err |-> "none", roots |-> Schedule(rs, r, "render", el), mounts |-> 1]
LegacyRender(rs, r, el) ==
  [err |-> "none", roots |-> Schedule(rs, r, "render", el), mounts |-> 1]
LegacyUnmount(rs, r) == Schedule(rs, r, "unmount", EmptyEl)

RootHydrate(rs, r, el) ==
  IF rs[r].kind = "concurrent" THEN ConcurrentHydrate(rs, r, el) ELSE LegacyHydrate(rs, r, el)
RootRender(rs, r, el) ==
  IF rs[r].kind = "concurrent" THEN ConcurrentRender(rs, r, el) ELSE LegacyRender(rs, r, el)
\* unmounts counts the invocations of the handle's unmount (history).
RootUnmount(rs, r) ==
  LET counted == [rs EXCEPT ![r].unmounts = @ + 1]
  IN IF rs[r].kind = "concurrent" THEN ConcurrentUnmount(counted, r)
     ELSE LegacyUnmount(counted, r)

-----------------------------------------------------------------------------
\* render(), lines 179-239.
\* Mutant: the capability check of line 190 is missing.
LegacyCheckMissing(legacyRoot, api) == FALSE

LegacyRootUnsupported(legacyRoot, api) == legacyRoot /\ ~api

\* Mutant: baseElement defaults to the document body even with a container.
BaseElementDefaultsToBody(optBase, optContainer) ==
  IF optBase # NoNode THEN optBase ELSE Body

\* baseElement = container by default, the document body when there is neither.
ResolveBaseElement(optBase, optContainer) ==
  IF optBase # NoNode THEN optBase
  ELSE IF optContainer # NoNode THEN optContainer
  ELSE Body

\* Mutant: the membership test of line 211 always misses.
IsTrackedNever(set, container) == FALSE

IsTracked(set, container) == container \in set

Max(S) == CHOOSE x \in S : \A y \in S : y <= x

\* The forEach of lines 221-228: the last entry of the container wins; 0 is undefined.
LookupRoot(entries, container) ==
  LET idx == {i \in 1..Len(entries) : entries[i].container = container}
  IN IF idx = {} THEN 0 ELSE entries[Max(idx)].root

\* renderRoot() up to its await, lines 129-139.
renderRoot(rs, r, hydrate, el) ==
  IF r = 0 THEN [err |-> "TypeError", roots |-> rs, mounts |-> 0]
  ELSE IF hydrate THEN RootHydrate(rs, r, el)
  ELSE RootRender(rs, r, el)

IdleProc ==
  [op |-> "idle", pc |-> "idle", leaf |-> NoLeaf, optContainer |-> NoNode,
   optBase |-> NoNode, hydrate |-> FALSE, legacy |-> FALSE, wrapper |-> "none",
   container |-> NoNode, base |-> NoNode, root |-> 0, hook |-> 0, err |-> "none",
   snap |-> <<>>, todo |-> {}, mounts |-> 0]

\* A settled call keeps no frame: only which call it was and how it ended.
Ended(op, pc, err) == [IdleProc EXCEPT !.op = op, !.pc = pc, !.err = err]

\* renderRoot() either threw before its await or is suspended at it.
Mounting(frame, err) ==
  IF err = "none" THEN [frame EXCEPT !.pc = "awaitMount"]
  ELSE Ended(frame.op, "failed", err)

Settled(p) == procs[p].pc \in {"idle", "done", "failed"}
InFlight(p) == ~Settled(p)

IdleWrapper == [pc |-> "idle", previousActEnvironment |-> FALSE]

\* No asyncWrapper call has been made.
InitWrappers ==
  /\ wrappers = [w \in Wrappers |-> IdleWrapper]
  /\ flagAtRest = isReactActEnvironment
  /\ wrapperCalls = 0

\* The module is loaded: the store is empty and nothing was called.
InitModule ==
  /\ hasLegacyAPI \in BOOLEAN
  /\ mountedContainers = {}
  /\ mountedRootEntries = <<>>
  /\ roots = <<>>
  /\ content = [c \in Containers |-> EmptyEl]
  /\ parent = [c \in Containers |-> IF c \in CallerContainers THEN CallerParent(c) ELSE NoNode]
  /\ nextAuto = 0
  /\ procs = [p \in Procs |-> IdleProc]
  /\ bundles = {}
  /\ current = [h \in 1..MaxHooks |-> NullRef]
  /\ nextHook = 0
  /\ rootsCreated = [c \in Containers |-> 0]
  /\ calls = 0
  /\ renders = 0

Init ==
  /\ InitModule
  /\ reactStrictMode = FALSE
  /\ isReactActEnvironment = TRUE
  /\ InitWrappers

\* The body of render() from its call to its first await (or its throw).
renderCall(p, call) ==
  IF LegacyRootUnsupported(call.legacy, hasLegacyAPI)
  THEN /\ procs' = [procs EXCEPT ![p] = Ended(call.op, "failed", "LegacyRootUnsupported")]
       /\ UNCHANGED <<mountedContainers, mountedRootEntries, roots, content, parent,
                      nextAuto, bundles, current, nextHook, rootsCreated>>
  ELSE LET fresh == call.optContainer = NoNode
           base == ResolveBaseElement(call.optBase, call.optContainer)
           container == IF fresh THEN <<"auto", nextAuto + 1>> ELSE call.optContainer
           hook == IF call.op = "renderHook" THEN nextHook + 1 ELSE 0
           leaf == IF call.op = "renderHook" THEN TestComponentLeaf(hook, call.leaf.props)
                   ELSE call.leaf
           el == Decorate(reactStrictMode, leaf, call.wrapper)
           started == [call EXCEPT !.container = container, !.base = base,
                                   !.hook = hook, !.leaf = leaf]
       IN /\ fresh => nextAuto < MaxAuto
          /\ call.op = "renderHook" => nextHook < MaxHooks
          /\ nextHook' = IF call.op = "renderHook" THEN hook ELSE nextHook
          /\ nextAuto' = IF fresh THEN nextAuto + 1 ELSE nextAuto
          /\ parent' = IF fresh THEN [parent EXCEPT ![container] = base] ELSE parent
          /\ IF ~IsTracked(mountedContainers, container)
             THEN /\ Len(roots) < MaxRoots
                  /\ roots' = Append(roots,
                                IF call.legacy THEN NewLegacyRoot(container)
                                ELSE NewConcurrentRoot(container, call.hydrate, el))
                  /\ rootsCreated' = [rootsCreated EXCEPT ![container] = @ + 1]
                  /\ procs' = [procs EXCEPT ![p] =
                                [started EXCEPT !.pc = "awaitRoot", !.root = Len(roots) + 1,
                                                !.mounts = IF call.hydrate /\ ~call.legacy
                                                           THEN 1 ELSE 0]]
             ELSE LET r == LookupRoot(mountedRootEntries, container)
                      out == renderRoot(roots, r, call.hydrate, el)
                  IN /\ roots' = out.roots
                     /\ procs' = [procs EXCEPT ![p] =
                                   Mounting([started EXCEPT !.root = r,
                                                            !.mounts = out.mounts], out.err)]
                     /\ UNCHANGED rootsCreated
          /\ UNCHANGED <<mountedContainers, mountedRootEntries, content, bundles, current>>

\* render(ui, options) is called.
Render(p, ui, optC, optB, hyd, leg, w) ==
  /\ Settled(p)
  /\ calls < MaxCalls /\ renders < MaxRenders
  /\ calls' = calls + 1 /\ renders' = renders + 1
  /\ renderCall(p, [IdleProc EXCEPT !.op = "render", !.leaf = UiLeaf(ui),
                      !.optContainer = optC, !.optBase = optB, !.hydrate = hyd,
                      !.legacy = leg, !.wrapper = w])
  /\ UNCHANGED <<wrapperVars, hasLegacyAPI, reactStrictMode>>

\* renderHook(renderCallback, options) is called, lines 256-284.
RenderHook(p, initialProps, optC, optB, hyd, leg, w) ==
  /\ Settled(p)
  /\ calls < MaxCalls /\ renders < MaxRenders
  /\ calls' = calls + 1 /\ renders' = renders + 1
  /\ renderCall(p, [IdleProc EXCEPT !.op = "renderHook",
                      !.leaf = TestComponentLeaf(0, initialProps),
                      !.optContainer = optC, !.optBase = optB, !.hydrate = hyd,
                      !.legacy = leg, !.wrapper = w])
  /\ UNCHANGED <<wrapperVars, hasLegacyAPI, reactStrictMode>>

\* render() resumes after `await createRootImpl(...)`, lines 213-238.
RenderRecord(p) ==
  LET me == procs[p]
      el == Decorate(reactStrictMode, me.leaf, me.wrapper)
      out == renderRoot(roots, me.root, me.hydrate, el)
  IN /\ me.pc = "awaitRoot"
     /\ roots[me.root].pend = "none"
     /\ mountedRootEntries' = Append(mountedRootEntries,
                                     [container |-> me.container, root |-> me.root])
     /\ mountedContainers' = mountedContainers \cup {me.container}
     /\ roots' = out.roots
     /\ procs' = [procs EXCEPT ![p] =
                   Mounting([me EXCEPT !.mounts = @ + out.mounts], out.err)]
     /\ UNCHANGED <<wrapperVars, hasLegacyAPI, reactStrictMode, content, parent, nextAuto, bundles,
                    current, nextHook, rootsCreated, calls, renders>>

\* The result bundle of renderRoot(), lines 141-176.
Bundle(me) ==
  [container |-> me.container, base |-> me.base, root |-> me.root,
   wrapper |-> me.wrapper, hook |-> me.hook]


\* renderRoot() resumes after its await and the call resolves.
RenderReturn(p) ==
  LET me == procs[p]
  IN /\ me.pc = "awaitMount"
     /\ roots[me.root].pend = "none"
     /\ procs' = [procs EXCEPT ![p] = Ended(me.op, "done", "none")]
     /\ bundles' = IF me.op \in {"render", "renderHook"} THEN bundles \cup {Bundle(me)}
                   ELSE bundles
     /\ UNCHANGED <<wrapperVars, hasLegacyAPI, reactStrictMode, mountedContainers, mountedRootEntries,
                    roots, content, parent, nextAuto, current, nextHook, rootsCreated, calls, renders>>

\* Mutant: rerender forwards the hydrate setting of the root it re-renders.
RerenderForwardsHydrate(b) ==
  [container |-> b.container, base |-> b.base, root |-> b.root,
   wrapper |-> b.wrapper, hydrate |-> roots[b.root].hydrate]

\* The options rerender passes to renderRoot(), lines 153-159: no hydrate, no queries.
RerenderOptions(b) ==
  [container |-> b.container, base |-> b.base, root |-> b.root,
   wrapper |-> b.wrapper, hydrate |-> FALSE]

rerenderCall(p, b, leaf) ==
  LET o == RerenderOptions(b)
      el == Decorate(reactStrictMode, leaf, o.wrapper)
      out == renderRoot(roots, o.root, o.hydrate, el)
  IN /\ Settled(p)
     /\ calls < MaxCalls
     /\ calls' = calls + 1
     /\ roots' = out.roots
     /\ procs' = [procs EXCEPT ![p] =
                   Mounting([IdleProc EXCEPT !.op = "rerender", !.leaf = leaf,
                               !.container = o.container, !.base = o.base,
                               !.root = o.root, !.wrapper = o.wrapper,
                               !.hydrate = o.hydrate, !.hook = b.hook,
                               !.mounts = out.mounts], out.err)]
     /\ UNCHANGED <<wrapperVars, hasLegacyAPI, reactStrictMode, mountedContainers, mountedRootEntries,
                    content, parent, nextAuto, bundles, current, nextHook, rootsCreated, renders>>

\* rerender(rerenderUi) of a render result.
Rerender(p, b, ui) ==
  /\ b.hook = 0
  /\ rerenderCall(p, b, UiLeaf(ui))

\* rerender(rerenderCallbackProps) of a renderHook result, lines 286-290.
HookRerender(p, b, props) ==
  /\ b.hook # 0
  /\ rerenderCall(p, b, TestComponentLeaf(b.hook, props))

\* unmount() of a render or renderHook result, lines 150-152.
Unmount(p, b) ==
  /\ Settled(p)
  /\ calls < MaxCalls
  /\ calls' = calls + 1
  /\ roots' = RootUnmount(roots, b.root)
  /\ procs' = [procs EXCEPT ![p] =
                [IdleProc EXCEPT !.op = "unmount", !.pc = "awaitUnmount",
                   !.container = b.container, !.base = b.base, !.root = b.root,
                   !.wrapper = b.wrapper, !.hook = b.hook]]
  /\ UNCHANGED <<wrapperVars, hasLegacyAPI, reactStrictMode, mountedContainers, mountedRootEntries,
                 content, parent, nextAuto, bundles, current, nextHook, rootsCreated, renders>>

\* The promise of unmount() resolves.
UnmountReturn(p) ==
  /\ procs[p].pc = "awaitUnmount"
  /\ roots[procs[p].root].pend = "none"
  /\ procs' = [procs EXCEPT ![p] = Ended("unmount", "done", "none")]
  /\ UNCHANGED <<wrapperVars, hasLegacyAPI, reactStrictMode, mountedContainers, mountedRootEntries,
                 roots, content, parent, nextAuto, bundles, current, nextHook,
                 rootsCreated, calls, renders>>

-----------------------------------------------------------------------------
\* cleanup(), lines 241-254.

\* Mutant: the map skips the first entry.
CleanupTargetsSkipFirst(entries) == IF entries = <<>> THEN entries ELSE Tail(entries)

\* The entries the map of line 243 visits.
CleanupTargets(entries) == entries

\* Mutant: the map leaves out the roots whose unmount was already invoked.
RECURSIVE UnmountAllSkipUnmounted(_, _)
UnmountAllSkipUnmounted(rs, entries) ==
  IF entries = <<>> THEN rs
  ELSE LET r == Head(entries).root
           after == IF rs[r].unmounts > 0 THEN rs
                    ELSE [RootUnmount(rs, r) EXCEPT ![r].cleanupUnmounts = @ + 1]
       IN UnmountAllSkipUnmounted(after, Tail(entries))

\* Every callback of the map runs up to its await: unmount is invoked on each root.
RECURSIVE UnmountAll(_, _)
UnmountAll(rs, entries) ==
  IF entries = <<>> THEN rs
  ELSE LET r == Head(entries).root
           after == RootUnmount(rs, r)
       IN UnmountAll([after EXCEPT ![r].cleanupUnmounts = @ + 1], Tail(entries))

\* Mutant: any attached container is detached, whatever its parent.
ShouldDetachAttached(parentNode) == parentNode # NoNode

ShouldDetach(parentNode) == parentNode = Body

\* Mutant: the entries are not dropped.
KeptEntries(entries) == entries

\* What the store holds after lines 252-253.
ClearedEntries(entries) == <<>>
ClearedContainers(set) == {}

Cleanup(p) ==
  LET snap == CleanupTargets(mountedRootEntries)
  IN /\ Settled(p)
     /\ calls < MaxCalls
     /\ calls' = calls + 1
     /\ roots' = UnmountAll(roots, snap)
     /\ procs' = [procs EXCEPT ![p] =
                   [IdleProc EXCEPT !.op = "cleanup", !.pc = "awaitUnmounts",
                      !.snap = snap, !.todo = 1..Len(snap)]]
     /\ UNCHANGED <<wrapperVars, hasLegacyAPI, reactStrictMode, mountedContainers, mountedRootEntries,
                    content, parent, nextAuto, bundles, current, nextHook, rootsCreated, renders>>

\* One callback of the map resumes after its act, lines 247-249.
CleanupDetach(p, i) ==
  LET e == procs[p].snap[i]
  IN /\ procs[p].pc = "awaitUnmounts"
     /\ i \in procs[p].todo
     /\ roots[e.root].pend = "none"
     /\ parent' = IF ShouldDetach(parent[e.container])
                  THEN [parent EXCEPT ![e.container] = NoNode] ELSE parent
     /\ procs' = [procs EXCEPT ![p].todo = @ \ {i}]
     /\ UNCHANGED <<wrapperVars, hasLegacyAPI, reactStrictMode, mountedContainers, mountedRootEntries,
                    roots, content, nextAuto, bundles, current, nextHook, rootsCreated, calls, renders>>

\* Mutant: the batch of line 242 is not awaited.
BatchNotAwaited(todo) == TRUE

\* Promise.all of line 242 resolves when every callback of the map has returned.
BatchSettled(todo) == todo = {}

\* Promise.all has resolved: the store is cleared, lines 252-253.
CleanupClear(p) ==
  /\ procs[p].pc = "awaitUnmounts"
  /\ BatchSettled(procs[p].todo)
  /\ mountedRootEntries' = ClearedEntries(mountedRootEntries)
  /\ mountedContainers' = ClearedContainers(mountedContainers)
  /\ rootsCreated' = [c \in Containers |-> 0]
  /\ procs' = [procs EXCEPT ![p] = Ended("cleanup", "done", "none")]
  /\ UNCHANGED <<wrapperVars, hasLegacyAPI, reactStrictMode, roots, content, parent, nextAuto,
                 bundles, current, nextHook, calls, renders>>

-----------------------------------------------------------------------------
\* act flushes the work scheduled on a root: the render commits and the
\* post-commit effect of TestComponent (lines 274-276) runs.
Flush(r) ==
  LET h == roots[r]
      leaf == h.pendEl.leaf
  IN /\ h.pend # "none"
     /\ roots' = [roots EXCEPT ![r].pend = "none", ![r].pendEl = EmptyEl]
     /\ content' = [content EXCEPT ![h.container] = IF h.pend = "render" THEN h.pendEl ELSE EmptyEl]
     /\ current' = IF h.pend = "render" /\ leaf.hook # 0
                   THEN [current EXCEPT ![leaf.hook] = renderCallback(leaf.props)]
                   ELSE current
     /\ UNCHANGED <<wrapperVars, hasLegacyAPI, reactStrictMode, mountedContainers, mountedRootEntries,
                    parent, nextAuto, procs, bundles, nextHook, rootsCreated, calls, renders>>

-----------------------------------------------------------------------------
\* asyncWrapper of the configuration, lines 29-37.
moduleVars == <<hasLegacyAPI, reactStrictMode, mountedContainers, mountedRootEntries,
                roots, content, parent, nextAuto, procs, bundles, current, nextHook,
                rootsCreated, calls, renders>>

Running(w) == wrappers[w].pc = "running"

\* asyncWrapper(cb) is called and runs up to `await cb()`, lines 30-33.
asyncWrapper(w) ==
  /\ ~Running(w)
  /\ wrapperCalls < MaxWrapperCalls
  /\ wrapperCalls' = wrapperCalls + 1
  /\ wrappers' = [wrappers EXCEPT ![w] =
                    [pc |-> "running", previousActEnvironment |-> isReactActEnvironment]]
  /\ isReactActEnvironment' = FALSE
  /\ flagAtRest' = IF \E v \in Wrappers : Running(v) THEN flagAtRest
                   ELSE isReactActEnvironment
  /\ UNCHANGED moduleVars

\* cb has settled: the finally block of lines 34-36 runs and the call settles.
asyncWrapperFinally(w, outcome) ==
  /\ Running(w)
  /\ isReactActEnvironment' = wrappers[w].previousActEnvironment
  /\ wrappers' = [wrappers EXCEPT ![w] = [IdleWrapper EXCEPT !.pc = outcome]]
  /\ UNCHANGED <<moduleVars, flagAtRest, wrapperCalls>>

asyncWrapperResolve(w) == asyncWrapperFinally(w, "resolved")
asyncWrapperReject(w) == asyncWrapperFinally(w, "rejected")

-----------------------------------------------------------------------------
\* The inputs of the calls: <<ui, wrapper>> and <<container, baseElement>> options.
RenderInputs == {<<"u1", "none">>, <<"u2", "W">>}
RenderTargets == {<<NoNode, NoNode>>, <<NoNode, El>>} \cup (CallerContainers \X {NoNode})
HookTargets == {<<NoNode, NoNode>>, <<<<"caller", 1>>, NoNode>>}

Resume(p) ==
  \/ RenderRecord(p)
  \/ RenderReturn(p)
  \/ UnmountReturn(p)
  \/ \E i \in 1..MaxRoots : CleanupDetach(p, i)
  \/ CleanupClear(p)

Call(p) ==
  \/ \E in \in RenderInputs, t \in RenderTargets, hyd \in BOOLEAN, leg \in BOOLEAN :
        Render(p, in[1], t[1], t[2], hyd, leg, in[2])
  \/ \E props \in PropsValues, t \in HookTargets, hyd \in BOOLEAN, leg \in BOOLEAN :
        RenderHook(p, props, t[1], t[2], hyd, leg, "none")
  \/ \E b \in bundles, ui \in Uis : Rerender(p, b, ui)
  \/ \E b \in bundles, props \in PropsValues : HookRerender(p, b, props)
  \/ \E b \in bundles : Unmount(p, b)
  \/ Cleanup(p)

\* Every call is awaited before the next one starts.
NoneInFlight == \A p \in Procs : Settled(p)

Next ==
  \/ \E p \in SeqProcs : NoneInFlight /\ Call(p)
  \/ \E p \in SeqProcs : Resume(p)
  \/ \E r \in 1..Len(roots) : Flush(r)

Spec == Init /\ [][Next]_vars

\* Calls started without awaiting each other: render() and cleanup() calls
\* interleave at their await points.  The second flow is the one started
\* while the first is suspended.
RaceInputs == {<<"u1", "none">>}
RaceTargets == {<<NoNode, NoNode>>, <<<<"caller", 1>>, NoNode>>}

RaceCall(p) ==
  \/ \E in \in RaceInputs, t \in RaceTargets, hyd \in BOOLEAN, leg \in BOOLEAN :
        Render(p, in[1], t[1], t[2], hyd, leg, in[2])
  \/ \E b \in bundles : Unmount(p, b)
  \/ Cleanup(p)

RaceNext ==
  \/ RaceCall(1)
  \/ InFlight(1) /\ RaceCall(2)
  \/ \E p \in Procs : Resume(p)
  \/ \E r \in 1..Len(roots) : Flush(r)

RaceSpec == Init /\ [][RaceNext]_vars

\* configure({reactStrictMode}) between and during awaited render and
\* rerender calls: the setting differs from mount to mount.
configure(strict) ==
  /\ strict # reactStrictMode
  /\ reactStrictMode' = strict
  /\ UNCHANGED <<wrapperVars, hasLegacyAPI, mountedContainers, mountedRootEntries, roots,
                 content, parent, nextAuto, procs, bundles, current, nextHook,
                 rootsCreated, calls, renders>>

ConfigInit ==
  /\ InitModule
  /\ reactStrictMode \in BOOLEAN
  /\ isReactActEnvironment = TRUE
  /\ InitWrappers

ConfigInputs == {<<"u1", "none">>, <<"u2", "W">>}
ConfigTargets == {<<NoNode, NoNode>>, <<<<"caller", 1>>, NoNode>>}

ConfigNext ==
  \/ \E strict \in BOOLEAN : configure(strict)
  \/ \E in \in ConfigInputs, t \in ConfigTargets, hyd \in BOOLEAN, leg \in BOOLEAN :
        NoneInFlight /\ Render(1, in[1], t[1], t[2], hyd, leg, in[2])
  \/ \E b \in bundles, ui \in Uis : NoneInFlight /\ Rerender(1, b, ui)
  \/ RenderRecord(1)
  \/ RenderReturn(1)
  \/ \E r \in 1..Len(roots) : Flush(r)

ConfigSpec == ConfigInit /\ [][ConfigNext]_vars

\* asyncWrapper calls, started whether or not an earlier one is suspended.
WrapperInit ==
  /\ InitModule
  /\ reactStrictMode = FALSE
  /\ isReactActEnvironment \in BOOLEAN
  /\ InitWrappers

WrapperNext ==
  \/ \E w \in Wrappers : asyncWrapper(w)
  \/ \E w \in Wrappers : asyncWrapperResolve(w)
  \/ \E w \in Wrappers : asyncWrapperReject(w)

WrapperSpec == WrapperInit /\ [][WrapperNext]_vars

-----------------------------------------------------------------------------
\* Properties.

Frame(p) == procs[p]
Rendering(p) == Frame(p).op \in {"render", "renderHook"} /\ InFlight(p)
\* The call is suspended in renderRoot() and act has flushed its work.
Mounted(p) == Frame(p).pc = "awaitMount" /\ roots[Frame(p).root].pend = "none"
EntriesOf(container) ==
  {i \in 1..Len(mountedRootEntries) : mountedRootEntries[i].container = container}
CleanupDone(p) == Frame(p).op = "cleanup" /\ Frame(p).pc = "done"

\* C1: with every call awaited, a root-handle is created only by a render
\* into a container that is not in the store, at most one per container
\* between two cleanups, and a render into a tracked container uses the
\* handle the store recorded for it, whatever its options.
C1_OneRootPerContainer ==
  /\ \A c \in Containers : rootsCreated[c] <= 1
  /\ \A p \in Procs :
       /\ Frame(p).pc = "awaitRoot" =>
            /\ Frame(p).container \notin mountedContainers
            /\ Frame(p).root = Len(roots)
       /\ Rendering(p) /\ Frame(p).pc = "awaitMount" =>
            /\ Cardinality(EntriesOf(Frame(p).container)) = 1
            /\ \A i \in EntriesOf(Frame(p).container) :
                 mountedRootEntries[i].root = Frame(p).root

\* A second render into a tracked container, with the other root strategy
\* requested, is mounting on the one handle created for the container.
C1_Witness ==
  \E p \in Procs :
    /\ Frame(p).op = "render" /\ Frame(p).pc = "awaitMount"
    /\ renders = 2 /\ Len(roots) = 1
    /\ Frame(p).legacy /\ roots[Frame(p).root].kind = "concurrent"
    /\ rootsCreated[Frame(p).container] = 1

\* C2: in every reachable state, also when render() and cleanup() calls
\* overlap, mountedContainers and mountedRootEntries are in bijection: each
\* container of the set has exactly one entry and each entry's container is
\* in the set.
C2_StoreBijection ==
  /\ \A c \in mountedContainers : Cardinality(EntriesOf(c)) = 1
  /\ \A i \in 1..Len(mountedRootEntries) :
       mountedRootEntries[i].container \in mountedContainers

\* C3: hydrate() is never invoked on a concurrent root-handle constructed
\* with hydrate false: no call ends with the non-hydrateable-root error.
C3_HydrateErrorUnreachable ==
  \A p \in Procs : Frame(p).err # "NonHydrateable"

\* C4: after a cleanup() that ran with no render in flight has resolved,
\* the store is empty and cleanup invoked unmount on every root-handle that
\* was tracked.
C4_CleanupEmptiesStore ==
  \A p \in Procs : CleanupDone(p) =>
    /\ mountedRootEntries = <<>>
    /\ mountedContainers = {}
    /\ \A r \in 1..Len(roots) : roots[r].cleanupUnmounts >= 1

\* A cleanup that found two tracked roots has resolved.
C4_Witness ==
  \E p \in Procs :
    /\ CleanupDone(p)
    /\ Len(roots) = 2
    /\ \A r \in 1..Len(roots) : roots[r].cleanupUnmounts = 1

\* C5 as stated: after cleanup() resolves no auto-created container is a
\* child of the document body, and every container supplied by the caller
\* keeps the parent it had.
C5_CallerContainersKeepParent ==
  \A p \in Procs : CleanupDone(p) =>
    /\ \A a \in AutoContainers : parent[a] # Body
    /\ \A k \in CallerContainers : parent[k] = CallerParent(k)

\* C5 amended: after cleanup() resolves no container that was rendered
\* into, auto-created or supplied by the caller, is a child of the document
\* body; a container whose parent is not the body (detached, or created
\* under a custom baseElement) keeps it, and so does a container that was
\* never rendered into.
C5_CleanupDetachesBodyChildren ==
  \A p \in Procs : CleanupDone(p) =>
    /\ \A r \in 1..Len(roots) : parent[roots[r].container] # Body
    /\ \A k \in CallerContainers :
         parent[k] = IF CallerParent(k) = Body /\ \E r \in 1..Len(roots) : roots[r].container = k
                     THEN NoNode ELSE CallerParent(k)
    /\ \A b \in bundles :
         b.container \in AutoContainers =>
           parent[b.container] = IF b.base = Body THEN NoNode ELSE b.base

\* cleanup() has resolved after renders into a caller's container attached
\* to the body and into a container created under a custom baseElement.
C5_Witness ==
  \E p \in Procs :
    /\ CleanupDone(p)
    /\ parent[<<"caller", 1>>] = NoNode
    /\ \E b \in bundles : b.container \in AutoContainers /\ parent[b.container] = El

\* C6: render() and renderHook() with legacyRoot true on a runtime without
\* ReactDOM.render fail with the legacy-root-unsupported error before any
\* effect: the step that throws changes neither the DOM nor the roots nor
\* the store nor any hook result, and no such call ever gets past the check.
LegacyThrow(p) ==
  procs'[p] # procs[p] /\ procs'[p].err = "LegacyRootUnsupported"

C6_LegacyUnsupportedBeforeEffects ==
  /\ [](\A p \in Procs : InFlight(p) /\ Frame(p).legacy => hasLegacyAPI)
  /\ [](\A r \in 1..Len(roots) : roots[r].kind = "legacy" => hasLegacyAPI)
  /\ [][\A p \in Procs :
         LegacyThrow(p) =>
           UNCHANGED <<mountedContainers, mountedRootEntries, roots, content, parent,
                       nextAuto, bundles, current, nextHook>>
       ]_vars

\* A renderHook({legacyRoot: true}) has failed on a runtime without the
\* API while a container was tracked.
C6_Witness ==
  \E p \in Procs :
    /\ Frame(p).op = "renderHook" /\ Frame(p).pc = "failed"
    /\ Frame(p).err = "LegacyRootUnsupported"
    /\ ~hasLegacyAPI
    /\ mountedContainers # {}

\* C7: rerender(ui2) creates no container and no root-handle and leaves the
\* store unchanged; it takes the render path, never the hydrate path, on the
\* root-handle, container and wrapper of its result bundle, and once its
\* work is flushed the container holds ui2, decorated.
RerenderStep(p) == procs'[p] # procs[p] /\ "rerender" \in {procs[p].op, procs'[p].op}

CleanupStep(p) == procs'[p] # procs[p] /\ procs'[p].op = "cleanup"

C8_CleanupIdempotent ==
  /\ [](\A r \in 1..Len(roots) : roots[r].cleanupUnmounts <= 1)
  /\ [][\A p \in Procs : CleanupStep(p) /\ mountedRootEntries = <<>> =>
         UNCHANGED <<mountedContainers, mountedRootEntries, roots, content, parent>>
       ]_vars

\* A cleanup() has started on an empty store after an earlier cleanup()
\* unmounted a root.
C8_Witness ==
  \E p \in Procs :
    /\ Frame(p).op = "cleanup" /\ Frame(p).pc = "awaitUnmounts"
    /\ Frame(p).snap = <<>>
    /\ \E r \in 1..Len(roots) : roots[r].cleanupUnmounts = 1

\* C9 as stated: render() without a baseElement option returns the document
\* body as baseElement, whether or not a container is supplied.
C9_BaseElementIsBody ==
  \A p \in Procs :
    Frame(p).op = "render" /\ InFlight(p) /\ Frame(p).optBase = NoNode =>
      Frame(p).base = Body

\* C9 amended: render() without a baseElement option returns as baseElement
\* the container when one is supplied, and the document body otherwise.
C9_BaseElementDefault ==
  \A p \in Procs :
    Frame(p).op = "render" /\ InFlight(p) /\ Frame(p).optBase = NoNode =>
      Frame(p).base = IF Frame(p).optContainer # NoNode THEN Frame(p).optContainer
                      ELSE Body

\* A render({container}) without baseElement is about to return.
C9_Witness ==
  \E p \in Procs :
    /\ Frame(p).op = "render" /\ Mounted(p)
    /\ Frame(p).optBase = NoNode
    /\ Frame(p).optContainer = <<"caller", 1>>
    /\ Frame(p).base = <<"caller", 1>>

\* C10: when renderHook(callback, {initialProps}) resolves, result.current
\* is what callback returned for initialProps; when rerender(newProps)
\* resolves, it is what callback returned for newProps; and result.current
\* is null until the first render of the hook has committed.
C10_HookResultCurrent ==
  /\ \A p \in Procs :
       Frame(p).hook # 0 /\ Frame(p).op \in {"renderHook", "rerender"} /\ Mounted(p) =>
         current[Frame(p).hook] = renderCallback(Frame(p).leaf.props)
  /\ \A p \in Procs :
       Frame(p).op = "renderHook" /\ InFlight(p) /\ roots[Frame(p).root].pend # "none" =>
         current[Frame(p).hook] = NullRef
  /\ \A h \in 1..MaxHooks : h > nextHook => current[h] = NullRef

\* C11: an entry leaves the store only when a cleanup() clears it.  The
\* unmount() of a result invokes unmount on its root-handle and leaves
\* mountedContainers and mountedRootEntries unchanged; a later render()
\* into the still tracked container creates no root-handle and mounts on
\* the recorded one; and a later cleanup() invokes unmount on every tracked
\* handle, the already unmounted ones included.
UnmountStep(p) == procs'[p] # procs[p] /\ procs'[p].op = "unmount"
RenderStart(p) ==
  /\ procs'[p] # procs[p] /\ Settled(p)
  /\ procs'[p].op \in {"render", "renderHook"}
  /\ procs'[p].err # "LegacyRootUnsupported"
StoreShrinks ==
  \/ Len(mountedRootEntries') < Len(mountedRootEntries)
  \/ ~(mountedContainers \subseteq mountedContainers')

C11_OnlyCleanupRemovesEntries ==
  /\ [](\A p \in Procs : Frame(p).pc = "awaitUnmounts" =>
          \A i \in 1..Len(Frame(p).snap) :
            /\ Frame(p).snap = mountedRootEntries
            /\ roots[Frame(p).snap[i].root].cleanupUnmounts >= 1
            /\ roots[Frame(p).snap[i].root].unmounts >= 1)
  /\ [](\A p \in Procs : Rendering(p) /\ Frame(p).pc = "awaitMount" =>
          Frame(p).root = LookupRoot(mountedRootEntries, Frame(p).container))
  /\ [][/\ StoreShrinks => \E p \in Procs : procs[p].pc = "awaitUnmounts" /\ CleanupDone(p)'
        /\ \A p \in Procs :
             /\ UnmountStep(p) =>
                  /\ UNCHANGED <<mountedContainers, mountedRootEntries>>
                  /\ procs'[p].pc = "awaitUnmount" =>
                       roots'[procs'[p].root].unmounts = roots[procs'[p].root].unmounts + 1
             /\ RenderStart(p) /\ procs'[p].container \in mountedContainers =>
                  Len(roots') = Len(roots)
             /\ RenderStart(p) /\ procs'[p].pc = "failed" => Len(roots') = Len(roots)
             /\ procs'[p].pc = "awaitUnmounts" /\ Settled(p) =>
                  \A i \in 1..Len(mountedRootEntries) :
                    roots'[mountedRootEntries[i].root].unmounts =
                      roots[mountedRootEntries[i].root].unmounts + 1
       ]_vars

\* render, unmount of the result, a second render into the same container,
\* then cleanup: the one root-handle of the container has had unmount
\* invoked twice, once by this cleanup.
C11_Witness ==
  \E p \in Procs :
    /\ Frame(p).op = "cleanup" /\ Frame(p).pc = "awaitUnmounts"
    /\ renders = 2 /\ Len(roots) = 1
    /\ Len(Frame(p).snap) = 1
    /\ roots[1].unmounts = 2 /\ roots[1].cleanupUnmounts = 1

\* C12: cleanup() invokes unmount on every tracked root-handle in the step
\* that starts it, before its first suspension; the store still holds the
\* snapshot as long as the unmount work of any of these handles is pending;
\* and at the step that clears the store every one of them has no work
\* pending and its container is empty.
CleanupStart(p) == Settled(p) /\ procs'[p].pc = "awaitUnmounts"
CleanupClears(p) == procs[p].pc = "awaitUnmounts" /\ procs'[p].pc = "done"
UnmountPending(r) == roots[r].pend = "unmount"

C12_ClearAfterUnmounts ==
  /\ [](\A p \in Procs : Frame(p).pc = "awaitUnmounts" =>
          /\ (\E i \in 1..Len(Frame(p).snap) : UnmountPending(Frame(p).snap[i].root)) =>
               /\ mountedRootEntries = Frame(p).snap
               /\ mountedContainers # {}
          /\ \A i \in 1..Len(Frame(p).snap) :
               UnmountPending(Frame(p).snap[i].root) => i \in Frame(p).todo)
  /\ [][\A p \in Procs :
         /\ CleanupStart(p) =>
              \A i \in 1..Len(mountedRootEntries) :
                LET r == mountedRootEntries[i].root
                IN /\ roots'[r].cleanupUnmounts = roots[r].cleanupUnmounts + 1
                   /\ roots'[r].pend = "unmount" \/ (roots[r].unmounted /\ roots'[r].pend = "none")
         /\ CleanupClears(p) =>
              \A i \in 1..Len(procs[p].snap) :
                /\ roots[procs[p].snap[i].root].pend = "none"
                /\ content[procs[p].snap[i].container] = EmptyEl
       ]_vars

\* A cleanup() that found two tracked roots is about to clear the store:
\* both callbacks of the map have returned, nothing is pending, and the
\* store still holds both entries.
C12_Witness ==
  \E p \in Procs :
    /\ Frame(p).pc = "awaitUnmounts"
    /\ Len(Frame(p).snap) = 2 /\ Frame(p).todo = {}
    /\ mountedRootEntries = Frame(p).snap
    /\ \A r \in 1..Len(roots) : roots[r].pend = "none" /\ roots[r].cleanupUnmounts = 1

\* C13: cleanup() drops no mounted root untracked, also while a render()
\* is in flight: every root-handle that render() recorded in the store and
\* that the store no longer holds had unmount invoked by a cleanup.
Recorded(r) == \A p \in Procs : ~(Frame(p).pc = "awaitRoot" /\ Frame(p).root = r)
Tracked(r) == \E i \in 1..Len(mountedRootEntries) : mountedRootEntries[i].root = r

C13_NoRootDroppedUntracked ==
  \A r \in 1..Len(roots) :
    Recorded(r) /\ ~Tracked(r) => roots[r].cleanupUnmounts >= 1

\* C14: when a render(ui, options) call is about to resolve (its work is
\* flushed and it threw nothing) the container holds ui, decorated, and the
\* call handed exactly one element to the runtime: hydrateRoot at
\* construction, or the hydrate or render of the handle.
C14_RenderMountsUiOnce ==
  \A p \in SeqProcs :
    Frame(p).op = "render" /\ Mounted(p) =>
      /\ content[Frame(p).container] =
           Decorate(reactStrictMode, Frame(p).leaf, Frame(p).wrapper)
      /\ Frame(p).mounts = 1

\* C15: the act-environment flag is false while the cb of an asyncWrapper
\* call runs, and once every asyncWrapper call has settled, overlapping
\* ones included, the flag has the value it had before the first of them
\* started.
C15_FlagRestoredAfterWrappers ==
  /\ (\E w \in Wrappers : Running(w)) => isReactActEnvironment = FALSE
  /\ (\A w \in Wrappers : ~Running(w)) => isReactActEnvironment = flagAtRest

\* C16: every element handed to the runtime, by hydrateRoot at
\* construction, by the hydrate or the render of a handle, from render() or
\* from rerender(), is the ui of the call inside the wrapper of the
\* originating render (if one was given) inside the strict-mode marker (if
\* reactStrictMode is set when the element is handed over): strict mode is
\* the outermost layer, ui the innermost, and with neither the element is
\* ui itself.
ExpectedLayers(strict, wrapper) ==
  (IF strict THEN <<"StrictMode">> ELSE <<>>) \o
  (IF wrapper # "none" THEN <<wrapper>> ELSE <<>>)
HandedOver(r) ==
  /\ roots'[r].pend = "render"
  /\ r <= Len(roots) => roots'[r] # roots[r]
WellLayered(el) ==
  /\ el.layers \in {<<>>, <<"W">>, <<"StrictMode">>, <<"StrictMode", "W">>}
  /\ el.leaf.ui \notin {"StrictMode", "W"}

C16_StrictModeOutermost ==
  /\ [](\A c \in Containers : WellLayered(content[c]))
  /\ [](\A p \in Procs : Frame(p).op = "rerender" /\ InFlight(p) =>
          \E b \in bundles : b.root = Frame(p).root /\ b.wrapper = Frame(p).wrapper)
  /\ [][\A r \in 1..Len(roots') :
         HandedOver(r) =>
           \E p \in Procs :
             /\ procs'[p] # procs[p]
             /\ procs'[p].root = r
             /\ roots'[r].pendEl.layers = ExpectedLayers(reactStrictMode, procs'[p].wrapper)
             /\ roots'[r].pendEl.leaf = procs'[p].leaf
             /\ procs'[p].wrapper = "none" /\ ~reactStrictMode =>
                  roots'[r].pendEl = Element(procs'[p].leaf)
       ]_vars

\* A result rendered with wrapper W while strict mode was off is
\* re-rendered after strict mode was switched on: the element handed over
\* has the strict-mode marker around W, the container still holds W alone.
C16_Witness ==
  \E p \in Procs :
    /\ Frame(p).op = "rerender" /\ Frame(p).pc = "awaitMount"
    /\ reactStrictMode
    /\ roots[Frame(p).root].pend = "render"
    /\ roots[Frame(p).root].pendEl.layers = <<"StrictMode", "W">>
    /\ content[Frame(p).container].layers = <<"W">>

====
